---- MODULE Spec2Model ----
(***************************************************************************)
(* RFID tag pairing and reliable delivery.                                 *)
(*                                                                         *)
(* Two state machines of the repository are modelled:                      *)
(*   - the scan loop of RFIDRabbitMQScanner (src/rfid_rabbitmq_e.py),      *)
(*     which pairs an object scan with a location scan and hands the       *)
(*     composed message to MessageTransmitter (src/rabbitmq_tx.py);        *)
(*   - EnhancedMessageTransmitter (src/rabbitmq_etx.py): a foreground      *)
(*     caller of transmit_message and the background monitor thread that   *)
(*     share the connection handle, the connected flag and the fallback    *)
(*     file without any lock.                                              *)
(***************************************************************************)
EXTENDS Integers, Sequences, FiniteSets, TLC

\* ------------------------------------------------------------------------
\* Bounds
\* ------------------------------------------------------------------------
\* number of run_once cycles explored
MaxScans == 4
\* number of transmit_message calls explored on the enhanced transmitter
MaxMsgs == 3
\* number of transmit_message calls explored in a session that also uses
\* get_status and ends with close_connection
MaxSessionMsgs == 2
\* clock readings per millisecond: datetime.now() is finer than the millisecond
\* that _message_id keeps
TicksPerMs == 2
\* number of single transmit_message calls explored on either transmitter
MaxCalls == 3
\* length of the lists given to batch_transmit
MaxBatch == 3
\* number of add_item / remove_item calls explored on the catalog
MaxOps == 3
\* the last clock reading explored in the scan loop
MaxClock == 3
\* length of the fallback files get_fallback_message_count is applied to
MaxFileLen == 3

\* ------------------------------------------------------------------------
\* Values
\* ------------------------------------------------------------------------
\* Python's None for a slot, a lookup result or a connection handle
NoItem == "none"

\* no get_fallback_message_count() has returned yet
NoCount == -1

\* identifiers a tag can carry; the reader returns one of them or fails
ItemIds == {"RFID1", "RFID2", "OP1", "OP2", "DUAL", "BLANK", "HOLLOW", "ZZZZ"}

\* what a caller passes to transmit_message: a non-empty dictionary, the empty
\* dictionary, or a value that is not a dictionary
MessageKinds == {"dict", "empty_dict", "not_dict"}

\* a catalog entry: absent key, an empty record {} or a non-empty record
DataKinds == {"absent", "empty", "rec"}

VARIABLES
    \* ---- environment ----
    brokerUp,        \* the broker accepts connections and publishes
    \* ---- configuration catalog (EnhancedConfigManager._rfid_tags) ----
    objects,         \* _rfid_tags["objects"]  : ItemIds -> DataKinds
    locations,       \* _rfid_tags["locations"]: ItemIds -> DataKinds
    \* ---- RFIDRabbitMQScanner ----
    object_item,     \* self.object_item   (item id or NoItem)
    location_item,   \* self.location_item (item id or NoItem)
    bconn,           \* MessageTransmitter.connection: "none", "open", "closed"
    handed,          \* messages handed to transmit_message: <<object, location>>
    delivered,       \* messages the basic transmitter published
    scans,           \* number of run_once calls so far
    lastTag,         \* identifier read in the last run_once (NoItem: read failed)
    prevSlots,       \* <<object_item, location_item>> before the last run_once
    lastClass,       \* classification of the last scan
    lastRet,         \* return value of the last run_once
    lastComposed,    \* the last run_once composed a message
    lastOutcome,     \* "none", "sent" or "raised": transmit_message in the last cycle
    lastReplaced,    \* the last run_once logged "Replacing previous ... scan"
    seenObj,         \* an Object was scanned since the last composition
    seenLoc,         \* a Location was scanned since the last composition
    now,             \* datetime.now(), in clock readings
    ids,             \* _message_id of the messages composed so far, in order
    recent,          \* <<Object, Location>> last scanned since _reset_scan_state
    \* ---- EnhancedMessageTransmitter ----
    connection,      \* self.connection: "none", "open", "dead", "closed"
    connected,       \* self.connected
    lastCb,          \* last value given to status_callback: "none", "true", "false"
    fileState,       \* fallback file: "absent", "valid", "corrupt"
    fileMsgs,        \* envelopes of a valid fallback file, in file order
    published,       \* message ids published to the broker, in order
    direct,          \* ids published by transmit_message itself (not by a replay)
    nextId,          \* id of the next message passed to transmit_message
    fg,              \* foreground thread: position and locals of transmit_message
    mon,             \* monitor thread: position and locals
    result,          \* outcome of each finished transmit_message call
    persisted,       \* ids whose envelope was written to the fallback file
    outage,          \* bookkeeping of consecutive calls during one broker outage
    outageQueued,    \* ids written to the fallback file while the broker was unreachable
    cbTick,          \* flips at every invocation of status_callback
    stop,            \* self._stop_monitoring
    counted,         \* value of the last get_fallback_message_count() call
    \* ---- callers of the public methods ----
    batch,           \* batch_transmit: the input list, one kind of value each
    bpos,            \* batch_transmit: index of the element in turn, 0 outside
    attempts,        \* batch_transmit: how transmit_message ended for each element
    transmitted,     \* batch_transmit: transmitted_messages, as input indices
    batchDone,       \* batch_transmit has returned transmitted
    calls,           \* single transmit_message calls made so far
    lastCall,        \* kind of input and end of the last single call
    ops,             \* catalog operations made so far
    lastOp           \* the last catalog operation, its arguments and its result

scanVars == <<object_item, location_item, bconn, handed, delivered, scans,
              lastTag, prevSlots, lastClass, lastRet, lastComposed, lastOutcome, lastReplaced,
              seenObj, seenLoc, now, ids, recent>>
catalogVars == <<objects, locations>>
engineVars == <<connection, connected, lastCb, fileState, fileMsgs, published,
                direct, nextId, fg, mon, result, persisted, outage,
                outageQueued, cbTick, stop, counted>>
apiVars == <<batch, bpos, attempts, transmitted, batchDone, calls, lastCall,
             ops, lastOp>>
vars == <<brokerUp, catalogVars, scanVars, engineVars, apiVars>>

\* ------------------------------------------------------------------------
\* Catalog lookup
\* ------------------------------------------------------------------------
\* the catalog the scanner is configured with
SampleObjects ==
    [id \in ItemIds |->
        IF id \in {"RFID1", "RFID2", "DUAL"} THEN "rec"
        ELSE IF id \in {"BLANK", "HOLLOW"} THEN "empty" ELSE "absent"]
SampleLocations ==
    [id \in ItemIds |->
        IF id \in {"OP1", "OP2", "DUAL", "HOLLOW"} THEN "rec" ELSE "absent"]

\* item_type arguments given to the catalog methods
ItemTypes == {"object", "objects", "Location", "LOCATIONS", "widget"}

\* str.lower() on the item types above
lower(item_type) ==
    CASE item_type = "Location" -> "location"
      [] item_type = "LOCATIONS" -> "locations"
      [] OTHER -> item_type

\* section_map.get(item_type.lower()): the section of the catalog, or None
section_of(item_type) ==
    LET t == lower(item_type) IN
    IF t \in {"object", "objects"} THEN "objects"
    ELSE IF t \in {"location", "locations"} THEN "locations"
    ELSE NoItem

\* self._rfid_tags.get(section, {}).get(item_id) on the given catalog
rfid_tags_get(objs, locs, item_id, item_type) ==
    LET section == section_of(item_type) IN
    IF section = "objects" THEN objs[item_id]
    ELSE IF section = "locations" THEN locs[item_id]
    ELSE "absent"

\* EnhancedConfigManager.get_item_data: the record or None
get_item_data(item_id, item_type) ==
    rfid_tags_get(objects, locations, item_id, item_type)

\* add_item leaving the record of an identifier that is already a key
store_item_if_absent(section, item_id, item_data) ==
    IF section[item_id] = "absent" THEN [section EXCEPT ![item_id] = item_data]
    ELSE section

\* add_item: "self._rfid_tags[section][item_id] = item_data"
store_item(section, item_id, item_data) == [section EXCEPT ![item_id] = item_data]

\* remove_item: "del self._rfid_tags[section][item_id]"
delete_item(section, item_id) == [section EXCEPT ![item_id] = "absent"]

\* Python truthiness of a lookup result: None and {} are false
Truthy(data) == data = "rec"

\* RFIDRabbitMQScanner._determine_item_type
determine_item_type(item_id) ==
    IF Truthy(get_item_data(item_id, "object")) THEN "object"
    ELSE IF Truthy(get_item_data(item_id, "location")) THEN "location"
    ELSE NoItem

\* _create_scanned_item without the "if not item_type: return None" guard: an
\* unclassified identifier is passed on as an object
create_scanned_item_unguarded(item_id) ==
    LET item_type == determine_item_type(item_id) IN
    IF item_type = NoItem THEN "object" ELSE item_type

\* RFIDRabbitMQScanner._create_scanned_item: the item's type, NoItem for None
create_scanned_item(item_id) ==
    LET item_type == determine_item_type(item_id) IN
    IF item_type = NoItem THEN NoItem
    ELSE IF ~Truthy(get_item_data(item_id, item_type)) THEN NoItem
    ELSE item_type

\* ------------------------------------------------------------------------
\* Scan pairing (RFIDRabbitMQScanner)
\* ------------------------------------------------------------------------
\* _process_scanned_item keeping the occupant of an occupied slot
process_scanned_item_keep_first(obj, loc, item_type, item_id) ==
    LET newObj == IF item_type = "object" /\ obj = NoItem THEN item_id ELSE obj
        newLoc == IF item_type = "location" /\ loc = NoItem THEN item_id ELSE loc
    IN [object_item   |-> newObj,
        location_item |-> newLoc,
        replaced      |-> FALSE,
        ready         |-> newObj # NoItem /\ newLoc # NoItem]

\* RFIDRabbitMQScanner._process_scanned_item: the slots after the scan, whether
\* a replacement was logged and the returned "ready to send"
process_scanned_item(obj, loc, item_type, item_id) ==
    LET newObj == IF item_type = "object" THEN item_id ELSE obj
        newLoc == IF item_type = "location" THEN item_id ELSE loc
    IN [object_item   |-> newObj,
        location_item |-> newLoc,
        replaced      |-> \/ item_type = "object" /\ obj # NoItem
                          \/ item_type = "location" /\ loc # NoItem,
        ready         |-> newObj # NoItem /\ newLoc # NoItem]

\* transmit_message, "_message_id": "msg_" followed by the wall-clock time
\* truncated to whole milliseconds, int(datetime.now().timestamp() * 1000)
message_id(clock) == [prefix |-> "msg_", ms |-> clock \div TicksPerMs]

\* MessageTransmitter._publish_to_rabbitmq (src/rabbitmq_tx.py): reconnects when
\* there is no open connection, then sends; every exception yields False
basic_publish(conn, up, sendOk) ==
    IF conn # "open" /\ ~up THEN [ok |-> FALSE, conn |-> conn]
    ELSE [ok |-> sendOk /\ up, conn |-> "open"]

\* MessageTransmitter.transmit_message without the "else: raise RuntimeError":
\* the composed message is returned whatever _publish_to_rabbitmq answered
basic_transmit_no_raise(conn, up, sendOk) ==
    LET p == basic_publish(conn, up, sendOk) IN
    [outcome |-> "sent", conn |-> p.conn, published |-> p.ok]

\* MessageTransmitter.transmit_message (src/rabbitmq_tx.py): returns the
\* composed message when the publish succeeded, raises RuntimeError otherwise
basic_transmit(conn, up, sendOk) ==
    LET p == basic_publish(conn, up, sendOk) IN
    [outcome |-> IF p.ok THEN "sent" ELSE "raised", conn |-> p.conn,
     published |-> p.ok]

\* transmit_message checking the type of its argument only
validate_type_only(kind) == IF kind = "not_dict" THEN "value_error" ELSE "ok"

\* transmit_message, "Validate input": ValueError unless the argument is a
\* dictionary and is not empty
validate(kind) == IF kind = "dict" THEN "ok" ELSE "value_error"

\* MessageTransmitter.transmit_message with any argument: the validation comes
\* first, and its ValueError is re-raised by the except branch
basic_transmit_message(kind, conn, up, sendOk) ==
    IF validate(kind) # "ok"
    THEN [outcome |-> "value_error", conn |-> conn, published |-> FALSE]
    ELSE basic_transmit(conn, up, sendOk)

\* batch_transmit giving up at the first message that fails
batch_next_abort(pos, outcome, len) == IF outcome = "sent" THEN pos + 1 ELSE len + 1

\* batch_transmit: "except Exception: ... continue", the loop goes on to the
\* next element whatever happened to this one
batch_next(pos, outcome, len) == pos + 1

\* batch_transmit: "transmitted_messages.append(transmitted_msg)" after a
\* transmit_message that returned
batch_collect(collected, pos, outcome) ==
    IF outcome = "sent" THEN Append(collected, pos) ELSE collected

\* run_once after transmit_message: _reset_scan_state runs on the success path
\* only; the except branch returns False and keeps both slots
slots_after_send(obj, loc, outcome) ==
    IF outcome = "sent" THEN <<NoItem, NoItem>> ELSE <<obj, loc>>

\* _create_message filling "object" from the location slot and "location" from
\* the object slot
create_message_swapped(obj, loc) == <<loc, obj>>

\* RFIDRabbitMQScanner._create_message: the ids under "object" and "location"
create_message(obj, loc) == <<obj, loc>>

\* the Object and the Location scanned last, after a scan of the given type
scanned_since_reset(last, item_type, item_id) ==
    IF item_type = "object" THEN <<item_id, last[2]>> ELSE <<last[1], item_id>>

\* RFIDRabbitMQScanner.run_once with the tag the reader returned (NoItem: the
\* read failed) and the broker's answer to the send, should one be made
run_once(tag, sendOk) ==
    /\ scans < MaxScans
    /\ scans' = scans + 1
    /\ lastTag' = tag
    /\ prevSlots' = <<object_item, location_item>>
    /\ UNCHANGED <<brokerUp, catalogVars, engineVars, apiVars, now>>
    /\ IF tag = NoItem
       THEN \* read_tag returned None
            /\ lastClass' = "read_fail"
            /\ lastRet' = FALSE
            /\ lastComposed' = FALSE
            /\ lastOutcome' = "none"
            /\ lastReplaced' = FALSE
            /\ UNCHANGED <<object_item, location_item, bconn, handed,
                           delivered, seenObj, seenLoc, ids, recent>>
       ELSE LET item_type == create_scanned_item(tag) IN
            IF item_type = NoItem
            THEN \* unknown item
                 /\ lastClass' = "unknown"
                 /\ lastRet' = FALSE
                 /\ lastComposed' = FALSE
                 /\ lastOutcome' = "none"
                 /\ lastReplaced' = FALSE
                 /\ UNCHANGED <<object_item, location_item, bconn, handed,
                                delivered, seenObj, seenLoc, ids, recent>>
            ELSE LET p == process_scanned_item(object_item, location_item,
                                               item_type, tag)
                 IN
                 /\ lastClass' = item_type
                 /\ lastReplaced' = p.replaced
                 /\ lastComposed' = p.ready
                 /\ IF p.ready
                    THEN LET t == basic_transmit(bconn, brokerUp, sendOk)
                             s == slots_after_send(p.object_item,
                                                   p.location_item, t.outcome)
                         IN
                         /\ handed' = Append(handed,
                                        create_message(p.object_item,
                                                       p.location_item))
                         /\ ids' = Append(ids, message_id(now))
                         /\ delivered' =
                                IF t.published
                                THEN Append(delivered,
                                        create_message(p.object_item,
                                                       p.location_item))
                                ELSE delivered
                         /\ bconn' = t.conn
                         /\ lastOutcome' = t.outcome
                         /\ lastRet' = (t.outcome = "sent")
                         /\ object_item' = s[1]
                         /\ location_item' = s[2]
                         /\ seenObj' = FALSE
                         /\ seenLoc' = FALSE
                         /\ recent' = IF t.outcome = "sent"
                                       THEN <<NoItem, NoItem>>
                                       ELSE scanned_since_reset(recent, item_type, tag)
                    ELSE /\ object_item' = p.object_item
                         /\ location_item' = p.location_item
                         /\ lastOutcome' = "none"
                         /\ lastRet' = FALSE
                         /\ seenObj' = (seenObj \/ item_type = "object")
                         /\ seenLoc' = (seenLoc \/ item_type = "location")
                         /\ recent' = scanned_since_reset(recent, item_type, tag)
                         /\ UNCHANGED <<bconn, handed, delivered, ids>>

RunOnce == \E tag \in ItemIds \cup {NoItem}, sendOk \in BOOLEAN :
               run_once(tag, sendOk)

\* ------------------------------------------------------------------------
\* Catalog maintenance (EnhancedConfigManager)
\* ------------------------------------------------------------------------
\* identifiers the catalog methods are called with
CatalogIds == {"RFID1", "OP1", "ZZZZ"}

catalogFrame == UNCHANGED <<brokerUp, scanVars, engineVars, batch, bpos,
                            attempts, transmitted, batchDone, calls, lastCall>>

\* EnhancedConfigManager.add_item
add_item(item_id, item_type, item_data) ==
    /\ ops < MaxOps
    /\ ops' = ops + 1
    /\ LET section == section_of(item_type) IN
       /\ objects' = IF section = "objects"
                     THEN store_item(objects, item_id, item_data) ELSE objects
       /\ locations' = IF section = "locations"
                       THEN store_item(locations, item_id, item_data)
                       ELSE locations
       /\ lastOp' = [op |-> "add", id |-> item_id, type |-> item_type,
                     data |-> item_data,
                     ret |-> IF section = NoItem THEN "False" ELSE "True"]
    /\ catalogFrame

AddItem == \E item_id \in CatalogIds, item_type \in ItemTypes,
              item_data \in {"empty", "rec"} :
               add_item(item_id, item_type, item_data)

\* EnhancedConfigManager.remove_item
remove_item(item_id, item_type) ==
    /\ ops < MaxOps
    /\ ops' = ops + 1
    /\ LET section == section_of(item_type)
           found == \/ section = "objects" /\ objects[item_id] # "absent"
                    \/ section = "locations" /\ locations[item_id] # "absent"
       IN
       /\ objects' = IF section = "objects" /\ found
                     THEN delete_item(objects, item_id) ELSE objects
       /\ locations' = IF section = "locations" /\ found
                       THEN delete_item(locations, item_id) ELSE locations
       /\ lastOp' = [op |-> "remove", id |-> item_id, type |-> item_type,
                     data |-> "absent",
                     ret |-> IF found THEN "True" ELSE "False"]
    /\ catalogFrame

RemoveItem == \E item_id \in CatalogIds, item_type \in ItemTypes :
                  remove_item(item_id, item_type)

\* ------------------------------------------------------------------------
\* Callers of MessageTransmitter (src/rabbitmq_tx.py)
\* ------------------------------------------------------------------------
scannerFrame == UNCHANGED <<object_item, location_item, handed, scans, lastTag,
                            prevSlots, lastClass, lastRet, lastComposed,
                            lastOutcome, lastReplaced, seenObj, seenLoc, now,
                            ids, recent>>

\* one transmit_message call on the basic transmitter
basic_call(kind, sendOk) ==
    /\ calls < MaxCalls
    /\ LET t == basic_transmit_message(kind, bconn, brokerUp, sendOk) IN
       /\ bconn' = t.conn
       /\ delivered' = IF t.published THEN Append(delivered, calls + 1)
                       ELSE delivered
       /\ lastCall' = [on |-> "basic", kind |-> kind, outcome |-> t.outcome]
    /\ calls' = calls + 1
    /\ UNCHANGED <<batch, bpos, attempts, transmitted, batchDone, ops, lastOp>>
    /\ UNCHANGED <<brokerUp, catalogVars, engineVars>>
    /\ scannerFrame

BasicCall == \E kind \in MessageKinds, sendOk \in BOOLEAN : basic_call(kind, sendOk)

\* the lists of at most n values a caller may give to batch_transmit
RECURSIVE KindLists(_)
KindLists(n) ==
    IF n = 0 THEN {<<>>}
    ELSE LET shorter == KindLists(n - 1) IN
         shorter \cup {Append(l, k) : l \in {x \in shorter : Len(x) = n - 1},
                                      k \in MessageKinds}

\* batch_transmit is called: "transmitted_messages = []"
B_Start ==
    /\ bpos = 0 /\ ~batchDone
    /\ batch' \in KindLists(MaxBatch)
    /\ bpos' = 1
    /\ attempts' = <<>>
    /\ transmitted' = <<>>
    /\ UNCHANGED <<batchDone, calls, lastCall, ops, lastOp>>
    /\ UNCHANGED <<brokerUp, catalogVars, engineVars, bconn, delivered>>
    /\ scannerFrame

\* batch_transmit: one turn of "for i, message_data in enumerate(messages)"
batch_step(sendOk) ==
    /\ bpos \in 1..Len(batch)
    /\ LET t == basic_transmit_message(batch[bpos], bconn, brokerUp, sendOk) IN
       /\ bconn' = t.conn
       /\ delivered' = IF t.published THEN Append(delivered, bpos) ELSE delivered
       /\ attempts' = Append(attempts, t.outcome)
       /\ transmitted' = batch_collect(transmitted, bpos, t.outcome)
       /\ bpos' = batch_next(bpos, t.outcome, Len(batch))
    /\ UNCHANGED <<batch, batchDone, calls, lastCall, ops, lastOp>>
    /\ UNCHANGED <<brokerUp, catalogVars, engineVars>>
    /\ scannerFrame

B_Step == \E sendOk \in BOOLEAN : batch_step(sendOk)

\* batch_transmit: "return transmitted_messages"
B_Return ==
    /\ bpos = Len(batch) + 1 /\ ~batchDone
    /\ batchDone' = TRUE
    /\ UNCHANGED <<batch, bpos, attempts, transmitted, calls, lastCall, ops, lastOp>>
    /\ UNCHANGED <<brokerUp, catalogVars, engineVars, bconn, delivered>>
    /\ scannerFrame

\* wall-clock time passes between two scan cycles
Tick ==
    /\ now < MaxClock
    /\ now' = now + 1
    /\ UNCHANGED <<brokerUp, catalogVars, engineVars, apiVars,
                   object_item, location_item,
                   bconn, handed, delivered, scans, lastTag, prevSlots,
                   lastClass, lastRet, lastComposed, lastOutcome, lastReplaced,
                   seenObj, seenLoc, ids, recent>>

\* ------------------------------------------------------------------------
\* EnhancedMessageTransmitter: operations on the shared state
\* ------------------------------------------------------------------------
\* is_connected: the handle exists, is not closed and answers the probe
is_connected(conn) == conn = "open"

\* is_connected setting the flag to its answer
connected_after_probe_sync(flag, answer) == answer

\* the connected flag after is_connected: every False answer clears it
connected_after_probe(flag, answer) == IF answer THEN flag ELSE FALSE

\* is_connected invoking status_callback(False) at every False answer
probe_notifies_each(flag, answer) == ~answer

\* is_connected: neither branch that returns False invokes status_callback
probe_notifies(flag, answer) == FALSE

\* _publish_to_rabbitmq without the "if not self.is_connected(): return False"
publish_to_rabbitmq_unchecked(conn, sendOk) ==
    IF sendOk THEN "sent" ELSE "error"

\* _publish_to_rabbitmq: "not_connected" when is_connected is False (returns
\* False), "sent" when basic_publish went through (returns True), "error" when
\* it raised (flag cleared, status_callback(False), returns False)
publish_to_rabbitmq(conn, sendOk) ==
    IF ~is_connected(conn) THEN "not_connected"
    ELSE IF sendOk THEN "sent" ELSE "error"

\* _connect_to_rabbitmq after queue_declare went through, without the call of
\* _process_fallback_messages
connect_succeeded_no_replay(flag) ==
    [connected |-> TRUE, notified |-> ~flag, replay |-> FALSE]

\* _connect_to_rabbitmq after queue_declare went through: "if not
\* self.connected:" sets the flag, invokes status_callback(True) and calls
\* _process_fallback_messages; nothing happens when the flag is already set
connect_succeeded(flag) ==
    [connected |-> TRUE, notified |-> ~flag, replay |-> ~flag]

\* the except branch of _connect_to_rabbitmq invoking status_callback(False)
\* at every failure
connect_failed_renotify(flag) ==
    [connected |-> FALSE, notified |-> TRUE, connection |-> NoItem]

\* the except branch of _connect_to_rabbitmq: "if self.connected:" clears the
\* flag and invokes status_callback(False); the handle is set to None; the
\* exception is not re-raised
connect_failed(flag) ==
    [connected |-> FALSE, notified |-> flag, connection |-> NoItem]

\* close_connection leaving the handle as it is
close_handle_leave(conn) == conn

\* close_connection: "if self.connection and not self.connection.is_closed:
\* self.connection.close()"; an exception of close() is caught and logged
close_handle(conn) == IF conn \in {"open", "dead"} THEN "closed" ELSE conn

\* the envelope _save_to_fallback_file wraps a message in
envelope(message) ==
    [original_message |-> message, fallback_reason |-> "rabbitmq_unavailable"]

\* _save_to_fallback_file starting from an empty list whatever the file holds
load_fallback_fresh(fstate, fmsgs) == <<>>

\* _save_to_fallback_file, loading: the envelopes of the file, [] when the file
\* is absent or its JSON is corrupt
load_fallback(fstate, fmsgs) == IF fstate = "valid" THEN fmsgs ELSE <<>>

\* _save_to_fallback_file inserting the new envelope at the head of the list
append_fallback_prepend(messages, message) == <<envelope(message)>> \o messages

\* _save_to_fallback_file, appending: the list written back
append_fallback(messages, message) == Append(messages, envelope(message))

\* _process_fallback_messages dropping the envelope whose publish failed as
\* well: fallback_messages[processed_count + 1:]
remaining_messages_skip(fallback_messages, processed_count) ==
    SubSeq(fallback_messages, processed_count + 2, Len(fallback_messages))

\* _process_fallback_messages: fallback_messages[processed_count:]
remaining_messages(fallback_messages, processed_count) ==
    SubSeq(fallback_messages, processed_count + 1, Len(fallback_messages))

\* _process_fallback_messages writing an empty list instead of unlinking
file_after_replay_keep(remaining_messages_) == "valid"

\* _process_fallback_messages: "if remaining_messages:" rewrites the file,
\* otherwise unlinks it
file_after_replay(remaining_messages_) ==
    IF remaining_messages_ # <<>> THEN "valid" ELSE "absent"

\* get_fallback_message_count without its try/except: an unreadable file
\* makes it raise, so that no count is returned
get_fallback_message_count_uncaught ==
    IF fileState = "valid" THEN Len(fileMsgs)
    ELSE IF fileState = "corrupt" THEN NoCount ELSE 0

\* get_fallback_message_count: 0 when the file is absent or unreadable
get_fallback_message_count == IF fileState = "valid" THEN Len(fileMsgs) ELSE 0

\* transmit_message without the "if not success: raise RuntimeError": a failed
\* save returns with the preset method "fallback_file"
transmit_outcome_no_raise(published_ok, saved_ok) ==
    IF published_ok THEN "rabbitmq" ELSE "fallback_file"

\* transmit_message: what the call ends with, from the two attempts
transmit_outcome(published_ok, saved_ok) ==
    IF published_ok THEN "rabbitmq"
    ELSE IF saved_ok THEN "fallback_file"
    ELSE "raised"

\* transmit_message going back to _publish_to_rabbitmq after a failed publish
after_publish_retry(p) == IF p = "sent" THEN "finish" ELSE "publish"

\* transmit_message: "if success: ... else: success = _save_to_fallback_file"
after_publish(p) == IF p = "sent" THEN "finish" ELSE "save_read"

\* monitor_connection looping whatever _stop_monitoring holds
monitor_next_ignore(stop_flag) == "check"

\* monitor_connection: the sleep loop breaks on _stop_monitoring and the
\* condition "while not self._stop_monitoring" ends the thread
monitor_next(stop_flag) == IF stop_flag THEN "stopped" ELSE "check"

\* ------------------------------------------------------------------------
\* Foreground thread: transmit_message
\* ------------------------------------------------------------------------
scanFrame == UNCHANGED <<brokerUp, catalogVars, scanVars, apiVars>>
historyFrame == UNCHANGED outageQueued

\* the call starts: validation and composition of the message; calls are
\* explored up to the given number
transmit_start(limit) ==
    /\ fg.pc = "idle"
    /\ nextId <= limit
    /\ fg' = [pc |-> "probe", msg |-> nextId, local |-> <<>>, outcome |-> "none"]
    /\ nextId' = nextId + 1
    /\ outage' = IF ~outage.tracking /\ ~brokerUp /\ get_fallback_message_count = 0
                 THEN [tracking |-> TRUE, calls |-> 0, fallbacks |-> 0, faults |-> 0]
                 ELSE outage
    /\ UNCHANGED <<connection, connected, lastCb, fileState, fileMsgs, published,
                   direct, mon, result, persisted>>
    /\ UNCHANGED <<cbTick, stop, counted>>
    /\ scanFrame
    /\ historyFrame

T_Start == transmit_start(MaxMsgs)

\* the same call in a session
S_Start == transmit_start(MaxSessionMsgs)

\* "if self.is_connected():"
T_Probe ==
    /\ fg.pc = "probe"
    /\ LET answer == is_connected(connection) IN
       /\ connected' = connected_after_probe(connected, answer)
       /\ lastCb' = IF probe_notifies(connected, answer) THEN "false" ELSE lastCb
       /\ cbTick' = IF probe_notifies(connected, answer) THEN ~cbTick ELSE cbTick
       /\ fg' = [fg EXCEPT !.pc = IF answer THEN "publish" ELSE "save_read"]
    /\ UNCHANGED <<connection, fileState, fileMsgs, published, direct,
                   nextId, mon, result, persisted, outage>>
    /\ UNCHANGED <<stop, counted>>
    /\ scanFrame
    /\ historyFrame

\* "success = self._publish_to_rabbitmq(composed_message)"
T_Publish ==
    /\ fg.pc = "publish"
    /\ \E sendOk \in BOOLEAN :
         LET p == publish_to_rabbitmq(connection, sendOk) IN
         /\ published' = IF p = "sent" THEN Append(published, fg.msg) ELSE published
         /\ direct' = IF p = "sent" THEN direct \cup {fg.msg} ELSE direct
         /\ connected' = IF p = "sent" THEN connected ELSE FALSE
         /\ lastCb' = IF p = "error" THEN "false" ELSE lastCb
         /\ cbTick' = IF p = "error" THEN ~cbTick ELSE cbTick
         /\ fg' = IF p = "sent"
                  THEN [fg EXCEPT !.pc = after_publish(p),
                                  !.outcome = transmit_outcome(TRUE, FALSE)]
                  ELSE [fg EXCEPT !.pc = after_publish(p)]
    /\ UNCHANGED <<connection, fileState, fileMsgs, nextId, mon, result,
                   persisted, outage>>
    /\ UNCHANGED <<stop, counted>>
    /\ scanFrame
    /\ historyFrame

\* _save_to_fallback_file: "messages = json.load(f)"
T_SaveRead ==
    /\ fg.pc = "save_read"
    /\ fg' = [fg EXCEPT !.pc = "save_write",
                        !.local = load_fallback(fileState, fileMsgs)]
    /\ UNCHANGED <<connection, connected, lastCb, fileState, fileMsgs, published,
                   direct, nextId, mon, result, persisted, outage>>
    /\ UNCHANGED <<cbTick, stop, counted>>
    /\ scanFrame
    /\ historyFrame

\* _save_to_fallback_file: append and "json.dump(messages, f)"; when the file
\* cannot be opened for writing the exception is caught, the method returns
\* False and transmit_message raises RuntimeError
T_SaveWrite ==
    /\ fg.pc = "save_write"
    /\ \E diskOk \in BOOLEAN :
         /\ fileState' = IF diskOk THEN "valid" ELSE fileState
         /\ fileMsgs' = IF diskOk THEN append_fallback(fg.local, fg.msg) ELSE fileMsgs
         /\ persisted' = IF diskOk THEN persisted \cup {fg.msg} ELSE persisted
         /\ outageQueued' = IF diskOk /\ ~brokerUp
                            THEN outageQueued \cup {fg.msg} ELSE outageQueued
         /\ fg' = [fg EXCEPT !.pc = "finish",
                             !.outcome = transmit_outcome(FALSE, diskOk)]
         /\ outage' = IF outage.tracking /\ ~diskOk
                      THEN [outage EXCEPT !.faults = @ + 1]
                      ELSE outage
    /\ UNCHANGED <<connection, connected, lastCb, published, direct, nextId, mon,
                   result>>
    /\ UNCHANGED <<cbTick, stop, counted>>
    /\ scanFrame

\* the call returns the composed message or re-raises
T_Finish ==
    /\ fg.pc = "finish"
    /\ result' = Append(result, fg.outcome)
    /\ fg' = [pc |-> "idle", msg |-> 0, local |-> <<>>, outcome |-> "none"]
    /\ outage' = IF outage.tracking
                 THEN [outage EXCEPT
                          !.calls = @ + 1,
                          !.fallbacks = IF fg.outcome = "fallback_file"
                                        THEN @ + 1 ELSE @]
                 ELSE outage
    /\ UNCHANGED <<connection, connected, lastCb, fileState, fileMsgs, published,
                   direct, nextId, mon, persisted>>
    /\ UNCHANGED <<cbTick, stop, counted>>
    /\ scanFrame
    /\ historyFrame

\* get_status between two calls: "connected": self.is_connected()
GetStatus ==
    /\ fg.pc = "idle"
    /\ LET answer == is_connected(connection) IN
       /\ connected' = connected_after_probe(connected, answer)
       /\ lastCb' = IF probe_notifies(connected, answer) THEN "false" ELSE lastCb
       /\ cbTick' = IF probe_notifies(connected, answer) THEN ~cbTick ELSE cbTick
    /\ UNCHANGED <<connection, fileState, fileMsgs, published, direct,
                   nextId, fg, mon, result, persisted, outage>>
    /\ UNCHANGED <<stop, counted>>
    /\ scanFrame
    /\ historyFrame

\* close_connection: "self._stop_monitoring = True"; the join that follows
\* gives up after two seconds, so the monitor may still be running afterwards
X_Stop ==
    /\ fg.pc = "idle"
    /\ stop' = TRUE
    /\ fg' = [fg EXCEPT !.pc = "close_conn"]
    /\ UNCHANGED <<connection, connected, lastCb, fileState, fileMsgs, published,
                   direct, nextId, mon, result, persisted, outage, cbTick,
                   counted>>
    /\ scanFrame
    /\ historyFrame

\* close_connection: the handle is closed unless it is None or closed already
X_Close ==
    /\ fg.pc = "close_conn"
    /\ connection' = close_handle(connection)
    /\ fg' = [fg EXCEPT !.pc = "close_mark"]
    /\ UNCHANGED <<connected, lastCb, fileState, fileMsgs, published, direct,
                   nextId, mon, result, persisted, outage, cbTick, stop,
                   counted>>
    /\ scanFrame
    /\ historyFrame

\* close_connection: "self.connected = False" and the return
X_Mark ==
    /\ fg.pc = "close_mark"
    /\ connected' = FALSE
    /\ fg' = [fg EXCEPT !.pc = "closed"]
    /\ UNCHANGED <<connection, lastCb, fileState, fileMsgs, published, direct,
                   nextId, mon, result, persisted, outage, cbTick, stop,
                   counted>>
    /\ scanFrame
    /\ historyFrame

\* ------------------------------------------------------------------------
\* Monitor thread: monitor_connection
\* ------------------------------------------------------------------------
monIdle == [pc |-> "sleep", local |-> <<>>, processed |-> 0, attempts |-> 0,
            failed |-> FALSE]

\* "if not self.is_connected():"
M_Check ==
    /\ mon.pc = "check"
    /\ LET answer == is_connected(connection) IN
       /\ connected' = connected_after_probe(connected, answer)
       /\ lastCb' = IF probe_notifies(connected, answer) THEN "false" ELSE lastCb
       /\ cbTick' = IF probe_notifies(connected, answer) THEN ~cbTick ELSE cbTick
       /\ mon' = [mon EXCEPT !.pc = IF answer THEN "sleep" ELSE "connect"]
    /\ UNCHANGED <<connection, fileState, fileMsgs, published, direct,
                   nextId, fg, result, persisted, outage>>
    /\ UNCHANGED <<stop, counted>>
    /\ scanFrame
    /\ historyFrame

\* the interruptible sleep of retry_interval seconds and the loop condition
\* "while not self._stop_monitoring"
M_Sleep ==
    /\ mon.pc = "sleep"
    /\ mon' = [mon EXCEPT !.pc = monitor_next(stop)]
    /\ UNCHANGED <<connection, connected, lastCb, fileState, fileMsgs, published,
                   direct, nextId, fg, result, persisted, outage>>
    /\ UNCHANGED <<cbTick, stop, counted>>
    /\ scanFrame
    /\ historyFrame

\* _connect_to_rabbitmq: BlockingConnection, channel, queue_declare; the except
\* branch when the broker does not answer
M_Connect ==
    /\ mon.pc = "connect"
    /\ IF brokerUp
       THEN /\ connection' = "open"
            /\ mon' = [mon EXCEPT !.pc = "flag"]
            /\ UNCHANGED <<connected, lastCb, cbTick>>
       ELSE LET c == connect_failed(connected) IN
            /\ connection' = c.connection
            /\ connected' = c.connected
            /\ lastCb' = IF c.notified THEN "false" ELSE lastCb
            /\ cbTick' = IF c.notified THEN ~cbTick ELSE cbTick
            /\ mon' = monIdle
    /\ UNCHANGED <<fileState, fileMsgs, published, direct, nextId, fg, result,
                   persisted, outage>>
    /\ UNCHANGED <<stop, counted>>
    /\ scanFrame
    /\ historyFrame

\* _connect_to_rabbitmq: "if not self.connected:" sets the flag, notifies the
\* callback and goes on to _process_fallback_messages
M_Flag ==
    /\ mon.pc = "flag"
    /\ LET c == connect_succeeded(connected) IN
       /\ connected' = c.connected
       /\ lastCb' = IF c.notified THEN "true" ELSE lastCb
       /\ cbTick' = IF c.notified THEN ~cbTick ELSE cbTick
       /\ mon' = IF c.replay THEN [mon EXCEPT !.pc = "replay_read"] ELSE monIdle
    /\ UNCHANGED <<connection, fileState, fileMsgs, published, direct, nextId,
                   fg, result, persisted, outage>>
    /\ UNCHANGED <<stop, counted>>
    /\ scanFrame
    /\ historyFrame

\* _process_fallback_messages: returns when the file is absent, unreadable or
\* empty, otherwise loads the envelopes
M_ReplayRead ==
    /\ mon.pc = "replay_read"
    /\ mon' = IF fileState = "valid" /\ fileMsgs # <<>>
              THEN [pc |-> "replay_pub", local |-> fileMsgs, processed |-> 0,
                    attempts |-> 0, failed |-> FALSE]
              ELSE monIdle
    /\ UNCHANGED <<connection, connected, lastCb, fileState, fileMsgs, published,
                   direct, nextId, fg, result, persisted, outage>>
    /\ UNCHANGED <<cbTick, stop, counted>>
    /\ scanFrame
    /\ historyFrame

\* _process_fallback_messages: one turn of the loop over the loaded envelopes
M_ReplayPublish ==
    /\ mon.pc = "replay_pub"
    /\ \E sendOk \in BOOLEAN :
         LET original_message == mon.local[mon.processed + 1].original_message
             p == publish_to_rabbitmq(connection, sendOk)
         IN
         /\ published' = IF p = "sent" THEN Append(published, original_message)
                         ELSE published
         /\ connected' = IF p = "sent" THEN connected ELSE FALSE
         /\ lastCb' = IF p = "error" THEN "false" ELSE lastCb
         /\ cbTick' = IF p = "error" THEN ~cbTick ELSE cbTick
         /\ mon' = IF p = "sent"
                   THEN [mon EXCEPT
                           !.processed = @ + 1,
                           !.attempts = @ + 1,
                           !.pc = IF mon.processed + 1 = Len(mon.local)
                                  THEN "replay_write" ELSE "replay_pub"]
                   ELSE [mon EXCEPT !.attempts = @ + 1, !.failed = TRUE,
                                    !.pc = "replay_write"]
    /\ UNCHANGED <<connection, fileState, fileMsgs, direct, nextId, fg, result,
                   persisted, outage>>
    /\ UNCHANGED <<stop, counted>>
    /\ scanFrame
    /\ historyFrame

\* _process_fallback_messages: "if processed_count > 0:" rewrites the file with
\* the remaining envelopes or unlinks it
M_ReplayWrite ==
    /\ mon.pc = "replay_write"
    /\ LET remaining == remaining_messages(mon.local, mon.processed) IN
       IF mon.processed > 0
       THEN /\ fileState' = file_after_replay(remaining)
            /\ fileMsgs' = remaining
       ELSE UNCHANGED <<fileState, fileMsgs>>
    /\ mon' = monIdle
    /\ UNCHANGED <<connection, connected, lastCb, published, direct, nextId, fg,
                   result, persisted, outage>>
    /\ UNCHANGED <<cbTick, stop, counted>>
    /\ scanFrame
    /\ historyFrame

\* ------------------------------------------------------------------------
\* Environment: the broker goes away and comes back
\* ------------------------------------------------------------------------
BrokerDown ==
    /\ brokerUp
    /\ brokerUp' = FALSE
    /\ bconn' = IF bconn = "open" THEN "closed" ELSE bconn
    /\ connection' = IF connection = "open" THEN "dead" ELSE connection
    /\ UNCHANGED <<catalogVars, apiVars, object_item, location_item, handed,
                   delivered,
                   scans, lastTag, prevSlots, lastClass, lastRet, lastComposed, lastOutcome,
                   lastReplaced, seenObj, seenLoc, now, ids, recent>>
    /\ UNCHANGED <<connected, lastCb, fileState, fileMsgs, published, direct,
                   nextId, fg, mon, result, persisted, outage, outageQueued,
                   cbTick, stop, counted>>

BrokerUp ==
    /\ ~brokerUp
    /\ brokerUp' = TRUE
    /\ outage' = [outage EXCEPT !.tracking = FALSE]
    /\ UNCHANGED <<connection, connected, lastCb, fileState, fileMsgs, published,
                   direct, nextId, fg, mon, result, persisted, outageQueued,
                   cbTick, stop, counted>>
    /\ UNCHANGED <<catalogVars, scanVars, apiVars>>

\* ------------------------------------------------------------------------
\* Initial states
\* ------------------------------------------------------------------------
\* no public method has been called yet
ApiIdle ==
    /\ batch = <<>>
    /\ bpos = 0
    /\ attempts = <<>>
    /\ transmitted = <<>>
    /\ batchDone = FALSE
    /\ calls = 0
    /\ lastCall = [on |-> "none", kind |-> "none", outcome |-> "none"]
    /\ ops = 0
    /\ lastOp = [op |-> "none", id |-> NoItem, type |-> "none", data |-> "absent",
                 ret |-> "none"]

\* fields of EnhancedMessageTransmitter before any connection attempt
EngineIdle ==
    /\ connection = "none"
    /\ connected = FALSE
    /\ lastCb = "none"
    /\ fileState = "absent"
    /\ fileMsgs = <<>>
    /\ published = <<>>
    /\ direct = {}
    /\ nextId = 1
    /\ fg = [pc |-> "idle", msg |-> 0, local |-> <<>>, outcome |-> "none"]
    /\ mon = [pc |-> "check", local |-> <<>>, processed |-> 0, attempts |-> 0,
              failed |-> FALSE]
    /\ result = <<>>
    /\ persisted = {}
    /\ outage = [tracking |-> FALSE, calls |-> 0, fallbacks |-> 0, faults |-> 0]
    /\ outageQueued = {}
    /\ cbTick = FALSE
    /\ stop = FALSE
    /\ counted = NoCount

\* RFIDRabbitMQScanner.__init__: MessageTransmitter's constructor raises unless
\* the broker accepted the connection, so a scanner starts with an open one
ScanInit ==
    /\ brokerUp = TRUE
    /\ objects = SampleObjects
    /\ locations = SampleLocations
    /\ object_item = NoItem
    /\ location_item = NoItem
    /\ bconn = "open"
    /\ handed = <<>>
    /\ delivered = <<>>
    /\ scans = 0
    /\ lastTag = NoItem
    /\ prevSlots = <<NoItem, NoItem>>
    /\ lastClass = "none"
    /\ lastRet = FALSE
    /\ lastComposed = FALSE
    /\ lastOutcome = "none"
    /\ lastReplaced = FALSE
    /\ seenObj = FALSE
    /\ seenLoc = FALSE
    /\ now = 0
    /\ ids = <<>>
    /\ recent = <<NoItem, NoItem>>
    /\ EngineIdle
    /\ ApiIdle

\* the slots and the bookkeeping of a scanner before its first scan
ScannerIdle ==
    /\ object_item = NoItem
    /\ location_item = NoItem
    /\ handed = <<>>
    /\ delivered = <<>>
    /\ scans = 0
    /\ lastTag = NoItem
    /\ prevSlots = <<NoItem, NoItem>>
    /\ lastClass = "none"
    /\ lastRet = FALSE
    /\ lastComposed = FALSE
    /\ lastOutcome = "none"
    /\ lastReplaced = FALSE
    /\ seenObj = FALSE
    /\ seenLoc = FALSE
    /\ now = 0
    /\ ids = <<>>
    /\ recent = <<NoItem, NoItem>>

\* the scanner before its first scan
ScanIdle ==
    /\ objects = SampleObjects
    /\ locations = SampleLocations
    /\ bconn = "none"
    /\ ScannerIdle
    /\ ApiIdle

\* EnhancedMessageTransmitter.__init__: one _connect_to_rabbitmq, which succeeds
\* or not, then the monitor thread is started; the fallback file of an earlier
\* process may be absent or unreadable
Init ==
    /\ ScanIdle
    /\ brokerUp \in BOOLEAN
    /\ connection = IF brokerUp THEN "open" ELSE "none"
    /\ connected = brokerUp
    /\ lastCb = IF brokerUp THEN "true" ELSE "none"
    /\ cbTick = brokerUp
    /\ fileState \in {"absent", "corrupt"}
    /\ fileMsgs = <<>>
    /\ published = <<>>
    /\ direct = {}
    /\ nextId = 1
    /\ fg = [pc |-> "idle", msg |-> 0, local |-> <<>>, outcome |-> "none"]
    /\ mon = [pc |-> "check", local |-> <<>>, processed |-> 0, attempts |-> 0,
              failed |-> FALSE]
    /\ result = <<>>
    /\ persisted = {}
    /\ outage = [tracking |-> FALSE, calls |-> 0, fallbacks |-> 0, faults |-> 0]
    /\ outageQueued = {}
    /\ stop = FALSE
    /\ counted = NoCount

\* a caller asks for the number of queued messages
GetCount ==
    /\ counted' = get_fallback_message_count
    /\ UNCHANGED <<connection, connected, lastCb, fileState, fileMsgs, published,
                   direct, nextId, fg, mon, result, persisted, outage,
                   outageQueued, cbTick, stop>>
    /\ scanFrame

\* the fallback files of at most MaxFileLen envelopes
RECURSIVE EnvelopeLists(_)
EnvelopeLists(n) ==
    IF n = 0 THEN {<<>>}
    ELSE LET shorter == EnvelopeLists(n - 1) IN
         shorter \cup {Append(l, envelope(m)) :
                          l \in {x \in shorter : Len(x) = n - 1},
                          m \in 1..MaxFileLen}

\* a transmitter in any state of its connection, with any fallback file; no
\* count was returned yet, or the file has changed since the last one
CountInit ==
    /\ ScanIdle
    /\ brokerUp \in BOOLEAN
    /\ connection \in {NoItem, "open", "dead", "closed"}
    /\ connected \in BOOLEAN
    /\ connected => connection # NoItem
    /\ lastCb = "none"
    /\ fileState \in {"absent", "corrupt", "valid"}
    /\ fileMsgs \in EnvelopeLists(MaxFileLen)
    /\ (fileMsgs # <<>>) <=> (fileState = "valid")
    /\ published = <<>>
    /\ direct = {}
    /\ nextId = 1
    /\ fg = [pc |-> "idle", msg |-> 0, local |-> <<>>, outcome |-> "none"]
    /\ mon = [pc |-> "check", local |-> <<>>, processed |-> 0, attempts |-> 0,
              failed |-> FALSE]
    /\ result = <<>>
    /\ persisted = {}
    /\ outage = [tracking |-> FALSE, calls |-> 0, fallbacks |-> 0, faults |-> 0]
    /\ outageQueued = {}
    /\ cbTick = FALSE
    /\ stop = FALSE
    /\ counted \in {NoCount} \cup (0..MaxFileLen)
    /\ counted # get_fallback_message_count

CountNext == GetCount

CountSpec == CountInit /\ [][CountNext]_vars

\* transmit_message with an argument that fails the validation: the ValueError
\* is raised, logged and re-raised before any field of the transmitter is used
transmit_reject(kind) ==
    /\ fg.pc = "idle"
    /\ calls < MaxCalls
    /\ validate(kind) # "ok"
    /\ calls' = calls + 1
    /\ lastCall' = [on |-> "enhanced", kind |-> kind, outcome |-> "value_error"]
    /\ UNCHANGED <<batch, bpos, attempts, transmitted, batchDone, ops, lastOp>>
    /\ UNCHANGED <<brokerUp, catalogVars, scanVars, engineVars>>

T_Reject == \E kind \in MessageKinds : transmit_reject(kind)

\* a basic transmitter whose connection is open, closed or not yet made
BasicTransmitterInit ==
    /\ brokerUp \in BOOLEAN
    /\ bconn \in {"none", "closed"} \cup (IF brokerUp THEN {"open"} ELSE {})
    /\ delivered = <<>>

\* both transmitters in any state between two calls; the fallback file is
\* absent, unreadable or holds one envelope
CallInit ==
    /\ objects = SampleObjects
    /\ locations = SampleLocations
    /\ ScannerIdle
    /\ ApiIdle
    /\ BasicTransmitterInit
    /\ connection \in {NoItem, "dead", "closed"} \cup (IF brokerUp THEN {"open"} ELSE {})
    /\ connected \in BOOLEAN
    /\ connected => connection # NoItem
    /\ lastCb = "none"
    /\ fileState \in {"absent", "corrupt", "valid"}
    /\ fileMsgs \in EnvelopeLists(1)
    /\ (fileMsgs # <<>>) <=> (fileState = "valid")
    /\ published = <<>>
    /\ direct = {}
    /\ nextId = 1
    /\ fg = [pc |-> "idle", msg |-> 0, local |-> <<>>, outcome |-> "none"]
    /\ mon = [pc |-> "check", local |-> <<>>, processed |-> 0, attempts |-> 0,
              failed |-> FALSE]
    /\ result = <<>>
    /\ persisted = {}
    /\ outage = [tracking |-> FALSE, calls |-> 0, fallbacks |-> 0, faults |-> 0]
    /\ outageQueued = {}
    /\ cbTick = FALSE
    /\ stop = FALSE
    /\ counted = NoCount

CallNext == BasicCall \/ T_Reject \/ BrokerDown \/ BrokerUp

CallSpec == CallInit /\ [][CallNext]_vars

\* the catalog as loaded from the configuration file
CatalogInit ==
    /\ objects = SampleObjects
    /\ locations = SampleLocations
    /\ brokerUp = FALSE
    /\ bconn = "none"
    /\ ScannerIdle
    /\ ApiIdle
    /\ EngineIdle

CatalogNext == AddItem \/ RemoveItem

CatalogSpec == CatalogInit /\ [][CatalogNext]_vars

\* a basic transmitter about to be given a batch
BatchInit ==
    /\ objects = SampleObjects
    /\ locations = SampleLocations
    /\ ScannerIdle
    /\ ApiIdle
    /\ BasicTransmitterInit
    /\ EngineIdle

BatchNext == B_Start \/ B_Step \/ B_Return \/ BrokerDown \/ BrokerUp

BatchSpec == BatchInit /\ [][BatchNext]_vars

Foreground == T_Start \/ T_Probe \/ T_Publish \/ T_SaveRead \/ T_SaveWrite \/ T_Finish

Monitor == M_Check \/ M_Sleep \/ M_Connect \/ M_Flag \/ M_ReplayRead
             \/ M_ReplayPublish \/ M_ReplayWrite

Next == Foreground \/ Monitor \/ BrokerDown \/ BrokerUp

Spec == Init /\ [][Next]_vars

\* a call of transmit_message that has started runs to its end, and the monitor
\* thread keeps being scheduled
InCall == T_Probe \/ T_Publish \/ T_SaveRead \/ T_SaveWrite \/ T_Finish

LiveSpec == Spec /\ WF_vars(InCall) /\ WF_vars(Monitor)

\* a session of the transmitter: calls of transmit_message and get_status,
\* ended by close_connection, with the monitor running in the background
Close == X_Stop \/ X_Close \/ X_Mark

SessionForeground == S_Start \/ T_Probe \/ T_Publish \/ T_SaveRead
                       \/ T_SaveWrite \/ T_Finish

SessionNext == SessionForeground \/ GetStatus \/ Close \/ Monitor
                 \/ BrokerDown \/ BrokerUp

SessionSpec == Init /\ [][SessionNext]_vars

\* a close_connection that has started runs to its end
InClose == X_Close \/ X_Mark

SessionLiveSpec ==
    SessionSpec /\ WF_vars(InCall) /\ WF_vars(InClose) /\ WF_vars(Monitor)

ScanNext == RunOnce \/ Tick \/ BrokerDown \/ BrokerUp

ScanSpec == ScanInit /\ [][ScanNext]_vars

\* ------------------------------------------------------------------------
\* Scan pairing: properties
\* ------------------------------------------------------------------------
\* a step that is one run_once call
IsRunOnce == scans' = scans + 1

\* C1: a run_once composes a message (and hands it to transmit_message) if and
\* only if both an Object and a Location have been scanned since the last
\* composition, the scan of this cycle included.
C1_ComposeIffBothSeen ==
    [][IsRunOnce =>
         (lastComposed' <=> /\ (seenObj \/ lastClass' = "object")
                            /\ (seenLoc \/ lastClass' = "location"))]_vars

\* C2: after a run_once that composed a message and made a delivery attempt
\* both slots are empty, whatever the attempt's outcome; the state "both slots
\* occupied" is never observable between two scan cycles.
C2_SlotsEmptyAfterAttempt ==
    /\ lastComposed => (object_item = NoItem /\ location_item = NoItem)
    /\ ~(object_item # NoItem /\ location_item # NoItem)

\* C3: a scan of the same type as an occupied slot replaces the occupant: an
\* Object scanned while an Object is pending and no Location is leaves exactly
\* the new Object in the object slot and the location slot as it was;
\* symmetrically for locations.
C3_LastWriteWins ==
    /\ (lastClass = "object" /\ prevSlots[1] # NoItem /\ prevSlots[2] = NoItem)
          => (object_item = lastTag /\ location_item = NoItem /\ lastReplaced)
    /\ (lastClass = "location" /\ prevSlots[2] # NoItem /\ prevSlots[1] = NoItem)
          => (location_item = lastTag /\ object_item = NoItem /\ lastReplaced)

\* Object(RFID1) then Object(RFID2) before any Location, and the symmetric case
C3_Witness ==
    \/ /\ lastClass = "object" /\ prevSlots = <<"RFID1", NoItem>>
       /\ lastTag = "RFID2" /\ object_item = "RFID2"
    \/ /\ lastClass = "location" /\ prevSlots = <<NoItem, "OP1">>
       /\ lastTag = "OP2" /\ location_item = "OP2"

\* an identifier that is a key of neither catalog
UnknownId(item_id) ==
    item_id # NoItem /\ objects[item_id] = "absent" /\ locations[item_id] = "absent"

\* C4: a scan whose identifier is in neither catalog leaves both slots as they
\* were, composes no message, makes no delivery attempt, and run_once returns
\* False.
C4_UnknownLeavesState ==
    [][(IsRunOnce /\ UnknownId(lastTag')) =>
         /\ object_item' = object_item
         /\ location_item' = location_item
         /\ ~lastComposed'
         /\ handed' = handed
         /\ delivered' = delivered
         /\ bconn' = bconn
         /\ lastOutcome' = "none"
         /\ lastRet' = FALSE]_vars

\* an unknown identifier scanned while an Object is pending
C4_Witness ==
    /\ lastTag = "ZZZZ" /\ lastClass = "unknown"
    /\ prevSlots[1] # NoItem /\ object_item = prevSlots[1]
    /\ lastRet = FALSE

\* ------------------------------------------------------------------------
\* Delivery engine: properties
\* ------------------------------------------------------------------------
Range(seq) == {seq[i] : i \in 1..Len(seq)}

\* the messages whose envelope is in the fallback file
InFile == IF fileState = "valid"
          THEN {fileMsgs[i].original_message : i \in 1..Len(fileMsgs)}
          ELSE {}

\* position of the first publish of a message
FirstPublish(m) == CHOOSE i \in 1..Len(published) :
                      /\ published[i] = m
                      /\ \A j \in 1..(i - 1) : published[j] # m

OutagePublished ==
    /\ outageQueued \subseteq Range(published)
    /\ \A m1, m2 \in outageQueued :
          m1 < m2 => FirstPublish(m1) < FirstPublish(m2)

\* an envelope queued during an outage is still in the fallback file
OutagePending == outageQueued \cap InFile # {}

\* C6: after messages were queued to the fallback file during an outage, once
\* the broker becomes reachable and stays reachable the fallback file is
\* eventually drained of them and all of them have been published to the
\* broker in their original transmit order.
C6_DrainedAfterOutage ==
    /\ (brokerUp /\ OutagePending) ~> (~brokerUp \/ ~OutagePending)
    /\ (<>[]brokerUp) => <>[]OutagePublished

\* C7: a finished transmit_message call ended in exactly one of three ways: the
\* publish succeeded and the method is the broker; the message was appended to
\* the fallback file and the method is "fallback_file"; or neither happened and
\* the call raised. It never returns normally without the message having been
\* published or persisted.
C7_ThreeOutcomes ==
    \A m \in 1..Len(result) :
        /\ result[m] \in {"rabbitmq", "fallback_file", "raised"}
        /\ result[m] = "rabbitmq" <=> m \in direct
        /\ result[m] = "fallback_file" <=> (m \in persisted /\ m \notin direct)
        /\ result[m] = "raised" <=> (m \notin persisted /\ m \notin direct)

\* the three outcomes, one call each
C7_Witness ==
    /\ Len(result) = 3
    /\ {result[i] : i \in 1..3} = {"rabbitmq", "fallback_file", "raised"}

\* positions at which a thread is in the middle of an operation on the
\* connection handle, the connected flag or the fallback file
FgInside == {"publish", "save_read", "save_write", "finish"}
MonInside == {"flag", "replay_read", "replay_pub", "replay_write"}

\* C8: the foreground path and the background monitor never run interleaved on
\* the connection handle, the connected flag and the fallback file.
C8_NoInterleaving == ~(fg.pc \in FgInside /\ mon.pc \in MonInside)

\* C9: under any interleaving of a foreground _save_to_fallback_file with a
\* background _process_fallback_messages, an envelope written to the fallback
\* file stays there until its original message was published.
C9_NoLostEnvelope == \A m \in persisted : m \in InFile \/ m \in Range(published)

\* the step in which a replay that met a failed publish finishes
ReplayFailedEnds == mon.pc = "replay_write" /\ mon.failed /\ mon'.pc = "sleep"

\* the envelopes of a file that are among the given ones, in file order
RestrictedTo(fstate, fmsgs, envelopes) ==
    IF fstate = "valid"
    THEN SelectSeq(fmsgs, LAMBDA e : e \in Range(envelopes))
    ELSE <<>>

ReplayEnds == mon.pc = "replay_write" /\ mon'.pc = "sleep"

CallbackValue(flag) == IF flag THEN "true" ELSE "false"

\* C12: the status callback is invoked exactly on connection-state
\* transitions: every change of the connected flag comes with one callback
\* carrying the new value, no callback is made when the flag does not change,
\* and successive callback values alternate.
C12_CallbackOnTransitions ==
    [][/\ connected' # connected
            => (cbTick' # cbTick /\ lastCb' = CallbackValue(connected'))
       /\ cbTick' # cbTick
            => (connected' # connected /\ lastCb' # lastCb)]_vars

\* a step that is one is_connected call: of transmit_message, of the monitor
\* loop or of get_status
ProbeStep == T_Probe \/ M_Check \/ GetStatus

\* C13: an is_connected() that returns False while the engine is already
\* Disconnected invokes no status callback, so no sequence of probes on a
\* disconnected engine produces a second callback(False).
C13_NoDuplicateFromProbe ==
    [][(ProbeStep /\ ~connected /\ ~is_connected(connection))
          => UNCHANGED <<cbTick, lastCb, connected>>]_vars

\* the monitor's probe found no handle after an earlier failed reconnect (the
\* only way the handle becomes None again), the last callback being
\* callback(False): the engine was Disconnected before this probe
C13_Witness ==
    /\ mon.pc = "connect" /\ connection = NoItem
    /\ lastCb = "false" /\ ~connected

\* C14: when is_connected() raises in its liveness probe or finds the
\* connection closed while the state is Connected, the state becomes
\* Disconnected and the status callback is invoked with False, as after a
\* failed publish.
C14_ProbeNotifies ==
    [][(ProbeStep /\ connected /\ ~is_connected(connection))
          => (~connected' /\ cbTick' # cbTick /\ lastCb' = "false")]_vars

\* C15: a successful _connect_to_rabbitmq sets the state to Connected, invokes
\* the status callback with True and goes on to one replay of the fallback
\* file before it returns to the monitor loop.
C15_ConnectSuccess ==
    [][M_Flag =>
         /\ connected' /\ ~connected
         /\ cbTick' # cbTick /\ lastCb' = "true"
         /\ mon'.pc = "replay_read"]_vars

\* the reconnect after an outage found envelopes to replay
C15_Witness ==
    /\ mon.pc = "replay_read" /\ connected /\ lastCb = "true"
    /\ connection = "open" /\ get_fallback_message_count = 2

\* the step in which _connect_to_rabbitmq fails
ConnectFails == M_Connect /\ ~brokerUp

PublishStep == T_Publish \/ M_ReplayPublish

C18_ConnectedOnlyByConnect ==
    [][(~connected /\ connected') => M_Flag]_vars

\* the first call went to the fallback file with the flag cleared; the engine
\* is Connected again
C18_Witness ==
    /\ Len(result) > 0 /\ result[1] = "fallback_file"
    /\ connected /\ connection = "open" /\ lastCb = "true"

\* C19: if the broker becomes and stays reachable while the monitor is not
\* stopped, the monitor eventually reconnects and the state becomes Connected,
\* without any caller action.
C19_MonitorRecovers ==
    (<>[](brokerUp /\ ~stop)) => []<>connected

\* C20: when close_connection() returns, the monitor has been told to stop
\* and the connected flag is false; a connection that was open when the method
\* came to it was closed.
C20_CloseConnection ==
    [][/\ X_Stop => stop'
       /\ X_Close => /\ stop
                     /\ connection \in {"open", "dead"} => connection' = "closed"
                     /\ connection' # "open"
       /\ X_Mark => (stop' /\ ~connected' /\ fg'.pc = "closed")]_vars

\* close_connection returned on an engine that was Connected
C20_Witness ==
    /\ fg.pc = "closed" /\ stop /\ ~connected
    /\ connection = "closed" /\ lastCb = "true"

\* ------------------------------------------------------------------------
\* Message ids, the scan loop during an outage, dual identifiers
\* ------------------------------------------------------------------------
\* C22: any two messages composed by the same transmitter carry different
\* _message_id values, even when both are composed within the same
\* millisecond.
C22_UniqueMessageIds ==
    \A i, j \in 1..Len(ids) : i # j => ids[i] # ids[j]

\* C23: a run_once that completes a pair while the broker is down delivers
\* the message to the fallback store: the transmit returns with method
\* "fallback_file" and the fallback count becomes 1.
C23_PairFallsBack ==
    [][(IsRunOnce /\ lastComposed' /\ ~brokerUp) =>
          (lastOutcome' = "fallback_file" /\ get_fallback_message_count' = 1)]_vars

\* an identifier that is a key of both catalogs
InBoth(item_id) ==
    item_id # NoItem /\ objects[item_id] # "absent" /\ locations[item_id] # "absent"

\* C27: an identifier present in both the object catalog and the location
\* catalog is classified as Object.
C27_ObjectWins == InBoth(lastTag) => lastClass = "object"

\* ------------------------------------------------------------------------
\* Stopping the monitor, fallback persistence, replay trigger
\* ------------------------------------------------------------------------
\* C21: once close_connection() has set the stop flag, the monitor loop
\* observes it at the end of its sleep and starts no further iteration; the
\* monitor thread eventually terminates.
C21_MonitorTerminates ==
    /\ [][(stop /\ mon.pc = "sleep") => mon'.pc \in {"sleep", "stopped"}]_vars
    /\ [][mon.pc = "stopped" => mon' = mon]_vars
    /\ stop ~> (mon.pc = "stopped")

\* the monitor has ended after close_connection returned
C21_Witness == stop /\ mon.pc = "stopped" /\ fg.pc = "closed"

\* C24: _save_to_fallback_file loads the envelope list of the file (the empty
\* list when the file is absent or corrupt, without failing) and writes back
\* that list, in order, followed by exactly one envelope wrapping the message;
\* after an absent or corrupt file the file holds exactly the new envelope.
C24_SaveAppendsOne ==
    [][/\ T_SaveRead =>
            /\ fg'.pc = "save_write"
            /\ fileState = "valid" => fg'.local = fileMsgs
            /\ fileState \in {"absent", "corrupt"} => fg'.local = <<>>
       /\ (T_SaveWrite /\ fg'.outcome = "fallback_file") =>
            /\ fileState' = "valid"
            /\ Len(fileMsgs') = Len(fg.local) + 1
            /\ SubSeq(fileMsgs', 1, Len(fg.local)) = fg.local
            /\ fileMsgs'[Len(fileMsgs')] =
                   [original_message |-> fg.msg,
                    fallback_reason |-> "rabbitmq_unavailable"]]_vars

\* the third message was appended behind the envelopes of the first two
C24_Witness ==
    /\ fg.pc = "finish" /\ fg.msg = 3 /\ fg.outcome = "fallback_file"
    /\ fileState = "valid"
    /\ fileMsgs = <<envelope(1), envelope(2), envelope(3)>>

\* position of a step of transmit_message within the call
CallRank(pc) ==
    CASE pc = "probe" -> 1
      [] pc = "publish" -> 2
      [] pc = "save_read" -> 3
      [] pc = "save_write" -> 4
      [] pc = "finish" -> 5
      [] OTHER -> 0

\* C26: within one transmit_message call the broker send is attempted at most
\* once: the call never comes back to the publish step, and a failed publish
\* goes straight to the fallback persistence.
C26_PublishOnce ==
    [][/\ (fg.msg # 0 /\ fg'.msg = fg.msg) => CallRank(fg'.pc) >= CallRank(fg.pc)
       /\ T_Publish => CallRank(fg'.pc) > CallRank(fg.pc)
       /\ (T_Publish /\ published' = published) => fg'.pc = "save_read"]_vars

\* the send of the first message failed and the call is about to persist it,
\* nothing having been published
C26_Witness ==
    /\ fg.pc = "save_write" /\ fg.msg = 1
    /\ published = <<>> /\ persisted = {}

\* C28: whenever is_connected() returns true, the connected flag is true and
\* the most recent status callback value, if any, is true.
C28_ProbeAgreesWithState ==
    [][(ProbeStep /\ is_connected(connection)) =>
          (connected' /\ lastCb' # "false")]_vars

\* C29: whenever the fallback file is non-empty and the broker stays
\* reachable, the file eventually becomes empty.
C29_ReplayTriggered ==
    [](((get_fallback_message_count > 0) /\ []brokerUp)
          => <>(get_fallback_message_count = 0))

\* C30: once close_connection() has returned, no later step sets the connected
\* flag, installs a connection, invokes the status callback or replays the
\* fallback file.
C30_StaysDisconnected ==
    [][fg.pc = "closed" =>
         /\ ~connected'
         /\ connection' # connection => connection' # "open"
         /\ cbTick' = cbTick
         /\ published' = published
         /\ fileMsgs' = fileMsgs]_vars

\* C25: get_fallback_message_count() returns the number of envelopes in the
\* fallback file, 0 if the file is absent (or unreadable), and changes neither
\* the file, nor the connection handle, nor the connected flag.
C25_CountIsPure ==
    [][GetCount =>
         /\ counted' = IF fileState = "valid" THEN Len(fileMsgs) ELSE 0
         /\ fileState = "absent" => counted' = 0
         /\ UNCHANGED <<fileState, fileMsgs, connection, connected, cbTick>>]_vars

\* the count of a file of three envelopes was taken on a Connected engine
C25_Witness ==
    /\ counted = 3 /\ fileState = "valid" /\ Len(fileMsgs) = 3
    /\ connected /\ connection = "open"

\* ------------------------------------------------------------------------
\* Order and multiplicity of publishes across the two delivery paths
\* ------------------------------------------------------------------------
\* C31: a message passed to transmit_message later is never published to the
\* broker while a message transmitted earlier is still waiting, unpublished,
\* in the fallback file.
C31_TransmitOrder ==
    [][published' # published =>
         LET m == published'[Len(published')] IN
         \A e \in InFile : e < m => e \in Range(published)]_vars

\* C32: no message is published to the broker more than once, under any
\* interleaving of transmit_message calls with replays.
C32_PublishedOnce ==
    \A i, j \in 1..Len(published) : i # j => published[i] # published[j]

\* ------------------------------------------------------------------------
\* Content of the composed message, classification
\* ------------------------------------------------------------------------
\* C33: the message composed when a pair completes carries exactly the most
\* recently scanned Object and the most recently scanned Location since the
\* last reset of the slots; an item that was replaced in its slot does not
\* appear in the message.
C33_MessageCarriesLatest ==
    [][(IsRunOnce /\ lastComposed') =>
         LET message == handed'[Len(handed')]
             latest == IF lastClass' = "object"
                       THEN <<lastTag', recent[2]>>
                       ELSE <<recent[1], lastTag'>>
             slot == IF lastClass' = "object" THEN 1 ELSE 2
         IN
         /\ Len(handed') = Len(handed) + 1
         /\ message = latest
         /\ (lastReplaced' /\ prevSlots'[slot] # lastTag')
                => (message[1] # prevSlots'[slot] /\ message[2] # prevSlots'[slot])]_vars

\* RFID1 was replaced by RFID2 before the location completed the pair
C33_Witness ==
    /\ Len(handed) = 1 /\ handed[1] = <<"RFID2", "OP1">>
    /\ scans = 3 /\ lastTag = "OP1" /\ lastComposed

\* C34: every identifier that is a key of the object catalog or of the
\* location catalog is classified as Object or Location respectively, never as
\* Unknown, whatever record it maps to (an empty record included).
C34_KeysAreClassified ==
    lastTag # NoItem =>
        /\ (objects[lastTag] # "absent" /\ locations[lastTag] = "absent")
               => lastClass = "object"
        /\ (locations[lastTag] # "absent" /\ objects[lastTag] = "absent")
               => lastClass = "location"
        /\ ~UnknownId(lastTag) => lastClass # "unknown"

\* ------------------------------------------------------------------------
\* Callers of transmit_message and batch_transmit
\* ------------------------------------------------------------------------
\* a step that is one transmit_message call on the given transmitter
IsCall(transmitter) == calls' = calls + 1 /\ lastCall'.on = transmitter

\* C35: transmit_message called with a value that is not a dictionary or with
\* an empty dictionary raises ValueError without attempting a publish, without
\* touching the fallback file and without changing the connection state.
C35_InvalidInputRejected ==
    [][/\ (IsCall("basic") /\ lastCall'.kind # "dict") =>
            /\ lastCall'.outcome = "value_error"
            /\ delivered' = delivered
            /\ bconn' = bconn
       /\ (IsCall("enhanced") /\ lastCall'.kind # "dict") =>
            /\ lastCall'.outcome = "value_error"
            /\ UNCHANGED <<published, fileState, fileMsgs, connection,
                           connected, lastCb, cbTick>>]_vars

\* an empty dictionary was refused by a basic transmitter that could have sent
\* it
C35_Witness ==
    /\ lastCall = [on |-> "basic", kind |-> "empty_dict", outcome |-> "value_error"]
    /\ bconn = "open" /\ brokerUp /\ delivered = <<>>

\* C36: the basic transmit_message returns the composed message only when the
\* publish to the broker succeeded; when the publish fails it raises, so a
\* normal return always means the message was published.
C36_ReturnMeansPublished ==
    [][IsCall("basic") =>
         /\ lastCall'.outcome \in {"sent", "raised", "value_error"}
         /\ lastCall'.outcome = "sent" <=> delivered' = Append(delivered, calls')
         /\ lastCall'.outcome # "sent" => delivered' = delivered
         /\ (lastCall'.kind = "dict" /\ delivered' = delivered)
               => lastCall'.outcome = "raised"]_vars

\* the second call of a basic transmitter raised after the first was published
C36_Witness ==
    /\ lastCall = [on |-> "basic", kind |-> "dict", outcome |-> "raised"]
    /\ calls = 2 /\ delivered = <<1>>

\* the indices of the elements whose transmit_message returned, in input order
SentIndices ==
    SelectSeq([i \in 1..Len(attempts) |-> i], LAMBDA i : attempts[i] = "sent")

\* C37: batch_transmit attempts every message of the input list in order, a
\* failure of one message does not stop the later ones, and the returned list
\* holds exactly the successfully transmitted messages in their input order.
C37_BatchTransmit ==
    /\ [][bpos' # bpos =>
            \/ bpos = 0 /\ bpos' = 1
            \/ /\ bpos' = bpos + 1
               /\ Len(attempts') = bpos
               /\ SubSeq(attempts', 1, Len(attempts)) = attempts]_vars
    /\ [](batchDone =>
            /\ Len(attempts) = Len(batch)
            /\ transmitted = SentIndices
            /\ delivered = transmitted)

\* a batch of three whose second element failed and whose third was sent
C37_Witness ==
    /\ batchDone /\ batch = <<"dict", "dict", "dict">>
    /\ attempts = <<"sent", "raised", "sent">> /\ transmitted = <<1, 3>>

\* ------------------------------------------------------------------------
\* Catalog maintenance
\* ------------------------------------------------------------------------
\* C38: after add_item(id, type, data) returns True get_item_data(id, type)
\* returns data; after remove_item(id, type) returns True it returns None;
\* remove_item of an absent id and any operation with an unrecognised type
\* return False/None and leave the catalog unchanged; items of the other type
\* are never affected.
C38_CatalogOperations ==
    [][ops' = ops + 1 =>
         LET o == lastOp' IN
         /\ o.ret \in {"True", "False"}
         /\ (o.op = "add" /\ o.ret = "True")
               => rfid_tags_get(objects', locations', o.id, o.type) = o.data
         /\ (o.op = "add" /\ section_of(o.type) # NoItem) => o.ret = "True"
         /\ (o.op = "remove" /\ o.ret = "True")
               => (get_item_data(o.id, o.type) # "absent"
                   /\ rfid_tags_get(objects', locations', o.id, o.type) = "absent")
         /\ (o.op = "remove" /\ get_item_data(o.id, o.type) = "absent")
               => (o.ret = "False" /\ UNCHANGED catalogVars)
         /\ section_of(o.type) = NoItem
               => /\ o.ret = "False"
                  /\ UNCHANGED catalogVars
                  /\ rfid_tags_get(objects', locations', o.id, o.type) = "absent"
         /\ section_of(o.type) # "objects" => objects' = objects
         /\ section_of(o.type) # "locations" => locations' = locations
         /\ \A other \in ItemIds \ {o.id} :
               objects'[other] = objects[other] /\ locations'[other] = locations[other]]_vars

\* identifier RFID1 was added as a location with an empty record, the object
\* of the same identifier being left as it was
C38_Witness ==
    /\ lastOp = [op |-> "add", id |-> "RFID1", type |-> "LOCATIONS",
                 data |-> "empty", ret |-> "True"]
    /\ locations["RFID1"] = "empty" /\ objects["RFID1"] = "rec"

====
